---- MODULE Spec2Model ----
(***************************************************************************)
(* Medusa speculative decoding: the adaptive head-count policies and the   *)
(* generation loop of MedusaModelABC (src/medusa/model/medusa_model.py),   *)
(* and convert_format of src/medusa/data/partition_train_test.py.          *)
(*                                                                         *)
(* Probabilities and thresholds are tenths (0.5 is 5).  Tokens are small   *)
(* integers; node ids are 0-based as in the code and stored at sequence    *)
(* position id + 1.                                                        *)
(***************************************************************************)
EXTENDS Integers, Sequences, FiniteSets, TLC

\* ------------------------------------------------------------------ bounds
MaxHeads == 3        \* largest number of draft heads (self.medusa) explored
MaxCount == 6        \* largest past_accepted_count explored
MaxProbLen == 4      \* longest candidates_prob sequence explored
MaxProb == 2         \* probability levels 0..MaxProb, thresholds likewise
MaxSteps == 2        \* largest max_steps explored
MaxCalls == 2        \* generation calls that get past their setup
NumStreams == 2      \* generator objects that may be alive at once
VocabSize == 2       \* tokens 0..VocabSize-1
KeyMod == 2          \* distinct hidden states of the sequence model

None == <<>>         \* Python's None, for optional arguments and unset attributes
Unset == 0 - 1       \* an integer local not yet assigned

Min(a, b) == IF a <= b THEN a ELSE b
Max(a, b) == IF a >= b THEN a ELSE b

\* ---------------------------------------------------- adaptive policies
\* max_heads=None defaults to self.medusa
DefaultHeads(max_heads, self_medusa) ==
    IF max_heads = None THEN self_medusa ELSE max_heads[1]

\* mutant: the floor of 2 applied after the cap
PreviousFloorLast(past_accepted_count, max_heads, self_medusa) ==
    Max(Min(past_accepted_count, DefaultHeads(max_heads, self_medusa)), 2)

\* mutant: no floor at all
PreviousNoFloor(past_accepted_count, max_heads, self_medusa) ==
    Min(past_accepted_count, DefaultHeads(max_heads, self_medusa))

adaptive_based_on_previous_step(past_accepted_count, max_heads, self_medusa) ==
    Min(Max(past_accepted_count, 2), DefaultHeads(max_heads, self_medusa))

\* (candidates_prob > threshold).nonzero(): the 0-based positions above the
\* threshold, ascending
RECURSIVE TrustedFrom(_, _, _)
TrustedFrom(candidates_prob, threshold, i) ==
    IF i > Len(candidates_prob) THEN <<>>
    ELSE (IF candidates_prob[i] > threshold THEN <<i - 1>> ELSE <<>>)
         \o TrustedFrom(candidates_prob, threshold, i + 1)

trusted_indices(candidates_prob, threshold) ==
    TrustedFrom(candidates_prob, threshold, 1)

\* The loop of lines 267-274 from index i on (1-based position of
\* trusted_indices[i-1] is i), carrying consecutive_indices and current_run;
\* followed by the check of the last run (lines 277-278).
RECURSIVE RunScan(_, _, _, _)
RunScan(ti, i, consecutive_indices, current_run) ==
    IF i > Len(ti)
    THEN IF Len(current_run) > Len(consecutive_indices)
         THEN current_run ELSE consecutive_indices
    ELSE IF ti[i] = ti[i - 1] + 1
         THEN RunScan(ti, i + 1, consecutive_indices, Append(current_run, ti[i]))
         ELSE RunScan(ti, i + 1,
                      IF Len(current_run) > Len(consecutive_indices)
                      THEN current_run ELSE consecutive_indices,
                      <<ti[i]>>)

\* mutant: only the run that starts at position 0 counts (a trusted prefix)
CurrentLeadingOnly(candidates_prob, threshold, max_heads, self_medusa) ==
    LET lead == CHOOSE k \in 0..Len(candidates_prob) :
                    /\ \A i \in 1..k : candidates_prob[i] > threshold
                    /\ (k < Len(candidates_prob) => candidates_prob[k + 1] <= threshold)
    IN  IF lead = 0 THEN 1 ELSE Min(lead, DefaultHeads(max_heads, self_medusa))

\* mutant: the cap at max_heads forgotten
CurrentNoCap(candidates_prob, threshold, max_heads, self_medusa) ==
    LET ti == trusted_indices(candidates_prob, threshold)
    IN  IF Len(ti) = 0 THEN 1 ELSE Len(RunScan(ti, 2, <<>>, <<ti[1]>>))

adaptive_based_on_current_step(candidates_prob, threshold, max_heads, self_medusa) ==
    LET ti == trusted_indices(candidates_prob, threshold)
    IN  IF Len(ti) = 0 THEN 1
        ELSE LET consecutive_indices == RunScan(ti, 2, <<>>, <<ti[1]>>)
             IN  IF consecutive_indices # <<>>
                 THEN Min(Len(consecutive_indices), DefaultHeads(max_heads, self_medusa))
                 ELSE 1

\* ------------------------------------------------------- the tree buffers
\* A BranchSpec is the sequence of branching factors, one per tree depth.
BranchSpecs == {<<1>>, <<1, 1>>, <<2, 1>>}

RECURSIVE LevelSize(_, _)
LevelSize(w, d) == IF d = 0 THEN 1 ELSE LevelSize(w, d - 1) * w[d]

RECURSIVE LevelStart(_, _)
LevelStart(w, d) == IF d = 0 THEN 0 ELSE LevelStart(w, d - 1) + LevelSize(w, d - 1)

NumNodes(w) == LevelStart(w, Len(w) + 1)

DepthOfNode(w, n) ==
    CHOOSE d \in 0..Len(w) : LevelStart(w, d) <= n /\ n < LevelStart(w, d + 1)

ChoiceOfNode(w, n) ==
    LET d == DepthOfNode(w, n) IN (n - LevelStart(w, d)) % w[d]

ParentOfNode(w, n) ==
    LET d == DepthOfNode(w, n)
    IN  LevelStart(w, d - 1) + ((n - LevelStart(w, d)) \div w[d])

RECURSIVE PathTo(_, _)
PathTo(w, n) == IF n = 0 THEN <<0>> ELSE Append(PathTo(w, ParentOfNode(w, n)), n)

\* Breadth-first topology: root is node 0, every node of depth d-1 spawns w[d]
\* children; retrieve_indices lists the root-to-leaf paths in declaration order.
generate_medusa_buffers(w) ==
    [ medusa_position_ids |-> [n \in 1..NumNodes(w) |-> DepthOfNode(w, n - 1)],
      tree_indices        |-> [n \in 1..NumNodes(w) |->
                                 IF n = 1 THEN <<0, 0>>
                                 ELSE <<DepthOfNode(w, n - 1), ChoiceOfNode(w, n - 1)>>],
      medusa_attn_mask    |-> [n \in 1..NumNodes(w) |-> PathTo(w, n - 1)],
      retrieve_indices    |-> [i \in 1..LevelSize(w, Len(w)) |->
                                 PathTo(w, LevelStart(w, Len(w)) + i - 1)] ]

\* -------------------------------------------------- the sequence model
Vocab == 0..(VocabSize - 1)
eos_token_id == 0
entropy_threshold == 5
InitialPrevAccept == 5
Blank == 0 - 1       \* a cache slot never written

RECURSIVE SumSeq(_)
SumSeq(q) == IF q = <<>> THEN 0 ELSE q[1] + SumSeq(Tail(q))

\* The hidden state the sequence model computes for the last position of a
\* visible context (cache prefix followed by the submitted tokens).
Hidden(ctx) == (SumSeq(ctx) + 2 * Len(ctx)) % KeyMod

VARIABLES
    policy,                 \* the last adaptive-policy call: arguments and result
    medusa,                 \* self.medusa: the number of draft heads
    lm,                     \* the sequence model: hidden state -> arg-max token
    self_medusa_choices,    \* self.medusa_choices (None: no such attribute yet)
    self_medusa_buffers,    \* self.medusa_buffers
    past_key_values_data,   \* self.past_key_values_data (None: not yet allocated)
    current_length_data,    \* self.current_length_data
    gen,                    \* the generator objects: locals and position of each
    running,                \* the generator now executing (None: the caller runs)
    calls,                  \* generation calls so far that got past their setup
    convert                 \* a call of convert_format: its locals and position

vars == <<policy, medusa, lm, self_medusa_choices, self_medusa_buffers,
          past_key_values_data, current_length_data, gen, running, calls, convert>>

modelVars == <<medusa, lm, self_medusa_choices, self_medusa_buffers,
               past_key_values_data, current_length_data, gen, running, calls, convert>>

Streams == 1..NumStreams

\* argmax of the base model's distribution at hidden state h
ArgMax(h) == lm[h]

\* top-(j+1) token of draft head d (1-based) at hidden state h; the tokens of
\* one head are pairwise distinct for j < VocabSize
HeadTok(h, d, j) == (lm[(h + d + 1) % KeyMod] + j) % VocabSize

\* lines 486-493: candidates_prob is gathered with candidates[:, 1:] as index,
\* so it has one row per path and one column per depth; the entry (tenths) is
\* the probability of the token drafted at depth d of path i
CandidatesProb(h, paths, depth) ==
    [i \in 1..paths |-> [d \in 1..depth |-> 3 * ((lm[h] + h + i + d + 2) % 3) + 3]]

\* lines 259-265 on that two-dimensional tensor: nonzero() returns one index
\* pair per entry above the threshold, and .item() on a pair raises
TrustedPairs(candidates_prob, threshold) ==
    {<<i, d>> \in (1..Len(candidates_prob)) \X (1..Len(candidates_prob[1])) :
        candidates_prob[i][d] > threshold}

\* ------------------------------------------------------ generation calls
Prompts == {<<1>>, <<0, 1>>}
InvalidSpecs == {<<1, 2>>}
Modes == {"none", "previous", "current"}

\* medusa_choices=None: the default of the model family
get_medusa_choice == <<2, 1>>

ValidSpec(w) ==
    /\ Len(w) > 0
    /\ \A i \in 1..Len(w) : w[i] > 0
    /\ \A i \in 1..(Len(w) - 1) : w[i + 1] <= w[i]

\* The arguments of a call; a batch of two rows is rejected before any other
\* argument is looked at, so it is tried with one prompt, step count and mode.
Args == [ batch          : {1},
          prompt         : Prompts,
          medusa_choices : BranchSpecs \cup InvalidSpecs \cup {None},
          max_steps      : 0..MaxSteps,
          adaptive_mode  : Modes ]
        \cup
        [ batch          : {2},
          prompt         : {<<1>>},
          medusa_choices : BranchSpecs \cup InvalidSpecs \cup {None},
          max_steps      : {MaxSteps},
          adaptive_mode  : {"none"} ]

NoArgs == [batch |-> 0, prompt |-> <<>>, medusa_choices |-> None,
           max_steps |-> 0, adaptive_mode |-> "none"]

NoBuffers == [medusa_position_ids |-> <<>>, tree_indices |-> <<>>,
              medusa_attn_mask |-> <<>>, retrieve_indices |-> <<>>]

\* slots of the preallocated key/value storage: a call that accepts every
\* drafted token of a wide tree from the longest prompt outgrows it in its
\* last step
CacheCap == 3 * MaxSteps + 3

NoStream == NumStreams + 1    \* control is with the caller

\* A generator object before its first next(): nothing has run.
Fresh == [ pc |-> "none", args |-> NoArgs, error |-> "",
           input_ids |-> <<>>, input_len |-> 0,
           medusa_buffers |-> NoBuffers, rebuilt |-> FALSE, cached_before |-> None,
           idx |-> Unset, new_token |-> Unset, prev_accept_length |-> Unset,
           logits |-> Unset, medusa_logits |-> Unset,
           num_heads |-> Unset, expander_heads |-> Unset,
           candidates |-> <<>>, tree_candidates |-> <<>>,
           submitted |-> Unset, outputs |-> <<>>,
           best_candidate |-> Unset, accept_length |-> Unset,
           out |-> <<>>, trace |-> <<>>, clean |-> TRUE ]

\* Another generator takes control while t is suspended at its yield.
Interleave(g, s) ==
    [t \in Streams |->
        IF t # s /\ g[t].pc = "yielded" THEN [g[t] EXCEPT !.clean = FALSE] ELSE g[t]]

\* mutant: the cached buffers are taken whenever the attribute exists
BuffersStale(medusa_choices, cached_choices, cached_buffers) ==
    IF cached_choices # None
    THEN cached_buffers
    ELSE generate_medusa_buffers(medusa_choices)

\* lines 404-411: the buffers the call uses
BuffersFor(medusa_choices, cached_choices, cached_buffers) ==
    IF cached_choices # None /\ cached_choices = medusa_choices
    THEN cached_buffers
    ELSE generate_medusa_buffers(medusa_choices)

\* mutant: current_length_data.zero_() forgotten on reuse
ResetLengthKept(length) == IF length = Unset THEN 0 ELSE length

\* lines 416-430: the counter after the reuse-or-allocate branch
ResetLength(length) == 0

\* initialize_past_key_values: zeroed storage
EmptyCache == [i \in 1..CacheCap |-> Blank]

\* One forward pass writes the key/values of the submitted tokens behind the
\* current length.
WriteCache(data, start, toks) ==
    [i \in 1..CacheCap |->
        IF start < i /\ i <= start + Len(toks) THEN toks[i - start] ELSE data[i]]

\* tokenizer.decode(..., skip_special_tokens=True)
Decode(toks) == SelectSeq(toks, LAMBDA t : t # eos_token_id)

Generated(g) == SubSeq(g.input_ids, g.input_len + 1, Len(g.input_ids))

\* mutant: the end token is looked for in the whole sequence, prompt included
HasEosAnywhere(g) == \E k \in 1..Len(g.input_ids) : g.input_ids[k] = eos_token_id

\* line 566: the end token is in the generated region
HasEos(g) == \E k \in 1..Len(Generated(g)) : Generated(g)[k] = eos_token_id

\* mutant: the exception is caught in the loop, which goes on to its yield
RaiseSwallowed(w, kind) == [w EXCEPT !.g.pc = "yielded", !.g.error = kind]

\* An exception leaves the generator: it is finished.
Raise(w, kind) == [w EXCEPT !.g.pc = "failed", !.g.error = kind]

\* the arguments a call read before it was rejected in its setup
Rejected(a) == [NoArgs EXCEPT !.batch = a.batch, !.medusa_choices = a.medusa_choices]

\* mutant: the key is stored on the object before the buffers are built
OnInvalidSpecKeyFirst(w, choices) == [w EXCEPT !.choices = choices]

\* lines 409-413: generate_medusa_buffers raises before self.medusa_buffers and
\* self.medusa_choices are assigned
OnInvalidSpec(w, choices) == w

\* mutant: the batch size is not checked
BatchAny(a) == TRUE

\* line 396: assert input_ids.shape[0] == 1
BatchOk(a) == a.batch = 1

\* ---- the steps of a call, on w = [g: the locals, data, cur: the key/value
\* ---- storage and its length counter, choices, buffers: the cached buffers]

\* medusa_choices=None is replaced by the default of the model family
ChoicesOf(a) == IF a.medusa_choices = None THEN get_medusa_choice ELSE a.medusa_choices

\* lines 396-411: the exception the setup of a call raises ("": none)
SetupError(a, w) ==
    IF ~BatchOk(a) THEN "AssertionError"
    ELSE IF w.choices # ChoicesOf(a) /\ ~ValidSpec(ChoicesOf(a)) THEN "InvalidSpec"
    ELSE ""

\* lines 396-432: the batch check, the buffer cache, the key/value cache reset
StartStep(a, w) ==
    LET choices == ChoicesOf(a)
        reuse   == w.choices # None /\ w.choices = choices
        buffers == BuffersFor(choices, w.choices, w.buffers)
    IN
    IF SetupError(a, w) = "AssertionError"
    THEN [w EXCEPT !.g = [Fresh EXCEPT !.pc = "failed", !.error = "AssertionError",
                                       !.args = Rejected(a)]]
    ELSE IF SetupError(a, w) = "InvalidSpec"
    THEN [OnInvalidSpec(w, choices) EXCEPT
             !.g = [Fresh EXCEPT !.pc = "failed", !.error = "InvalidSpec",
                                 !.args = Rejected(a)]]
    ELSE [ choices |-> choices,
           buffers |-> buffers,
           data    |-> IF w.data # None THEN w.data ELSE EmptyCache,
           cur     |-> ResetLength(w.cur),
           g       |-> [Fresh EXCEPT !.pc = "prefill",
                                     !.args = [a EXCEPT !.medusa_choices = choices],
                                     !.input_ids = a.prompt,
                                     !.input_len = Len(a.prompt),
                                     !.medusa_buffers = buffers,
                                     !.rebuilt = ~reuse,
                                     !.cached_before = w.choices] ]

\* lines 434-443: prefill of the prompt, then the loop head of step 0
PrefillStep(w) ==
    LET g == w.g
        h == Hidden(SubSeq(w.data, 1, w.cur) \o g.input_ids)
    IN
    IF w.cur + Len(g.input_ids) > CacheCap
    THEN Raise(w, "VerificationFailure")
    ELSE [w EXCEPT
            !.data = WriteCache(w.data, w.cur, g.input_ids),
            !.cur  = w.cur + Len(g.input_ids),
            !.g    = [g EXCEPT !.logits = ArgMax(h),
                               !.medusa_logits = h,
                               !.new_token = 0,
                               !.prev_accept_length = InitialPrevAccept,
                               !.idx = IF g.args.max_steps > 0 THEN 0 ELSE Unset,
                               !.trace = Append(g.trace, "Prefill"),
                               !.pc = IF g.args.max_steps > 0 THEN "draft" ELSE "done"]]

\* generate_candidates: the token of every tree node, and of every path
TreeCandidates(buffers, logits, medusa_logits, active) ==
    [n \in 1..Len(buffers.tree_indices) |->
        IF n = 1 THEN logits
        ELSE LET d == buffers.tree_indices[n][1]
                 j == buffers.tree_indices[n][2]
             IN  HeadTok(medusa_logits, d, IF d <= active THEN j ELSE 0)]

Candidates(buffers, tree_candidates) ==
    [i \in 1..Len(buffers.retrieve_indices) |->
        [k \in 1..Len(buffers.retrieve_indices[i]) |->
            tree_candidates[buffers.retrieve_indices[i][k] + 1]]]

\* lines 444-445 and 485-499: the head count of the step
NumHeadsFor(g, self_medusa) ==
    IF g.args.adaptive_mode = "previous"
    THEN adaptive_based_on_previous_step(g.prev_accept_length, None, self_medusa)
    ELSE IF g.args.adaptive_mode = "current"
    THEN 1
    ELSE Unset

\* lines 496-499: the call of the current-step policy raises unless no entry
\* of candidates_prob is above the threshold (line 260)
CurrentStepRaises(g) ==
    /\ g.args.adaptive_mode = "current"
    /\ TrustedPairs(CandidatesProb(g.medusa_logits,
                                   Len(g.medusa_buffers.retrieve_indices),
                                   Len(g.args.medusa_choices)),
                    entropy_threshold) # {}

\* lines 444-459, 471-499, 513-524: the candidates of the step
DraftStep(w, self_medusa) ==
    LET g      == w.g
        h      == NumHeadsFor(g, self_medusa)
        active == IF g.args.adaptive_mode = "previous" THEN h ELSE self_medusa
        tc     == TreeCandidates(g.medusa_buffers, g.logits, g.medusa_logits, active)
    IN  IF CurrentStepRaises(g) THEN Raise(w, "RuntimeError") ELSE
        [w EXCEPT !.g = [g EXCEPT !.num_heads = h,
                                  !.expander_heads = active,
                                  !.tree_candidates = tc,
                                  !.candidates = Candidates(g.medusa_buffers, tc),
                                  !.trace = Append(g.trace, "Draft"),
                                  !.pc = "verify"]]

\* lines 318-321: the nodes tree_decoding_adaptive submits (all of them when
\* num_active_heads is None, as in tree_decoding)
ActiveTreeCandidates(tree_candidates, num_active_heads) ==
    IF num_active_heads = Unset THEN tree_candidates
    ELSE SubSeq(tree_candidates, 1, Min(num_active_heads + 1, Len(tree_candidates)))

\* tree_logits[0, retrieve_indices] (line 342) raises IndexError for a node id
\* that was not submitted
RetrieveInRange(retrieve_indices, nsub) ==
    \A i \in 1..Len(retrieve_indices) :
        \A k \in 1..Len(retrieve_indices[i]) : retrieve_indices[i][k] < nsub

\* The forward pass over the submitted nodes: every node attends to the
\* visible cache and to its ancestors; the result is its hidden state.
TreeForward(data, cur, sub, mask) ==
    [n \in 1..Len(sub) |->
        Hidden(SubSeq(data, 1, cur) \o [k \in 1..Len(mask[n]) |-> sub[mask[n][k] + 1]])]

\* mutant: in 'current' mode a second verification pass follows the first
AfterVerifyAgain(g) ==
    IF g.args.adaptive_mode = "current" /\ g.submitted = Unset THEN "verify" ELSE "accept"

\* lines 462-469, 502-509, 526-533 are followed by evaluate_posterior, line 536
AfterVerify(g) == "accept"

\* lines 462-469, 502-509, 526-533: one verification pass
VerifyStep(w) ==
    LET g   == w.g
        sub == ActiveTreeCandidates(g.tree_candidates, g.num_heads)
    IN
    IF w.cur + Len(sub) > CacheCap
    THEN Raise(w, "VerificationFailure")
    ELSE LET v == [w EXCEPT !.data = WriteCache(w.data, w.cur, sub),
                            !.cur  = w.cur + Len(sub)]
         IN  IF RetrieveInRange(g.medusa_buffers.retrieve_indices, Len(sub))
             THEN [v EXCEPT !.g = [g EXCEPT
                        !.submitted = Len(sub),
                        !.outputs = TreeForward(w.data, w.cur, sub,
                                                g.medusa_buffers.medusa_attn_mask),
                        !.trace = Append(g.trace, "Verify"),
                        !.pc = AfterVerify(g)]]
             ELSE Raise([v EXCEPT !.g.submitted = Len(sub)], "IndexError")

\* evaluate_posterior at temperature 0: the accepted prefix of path i
RECURSIVE AcceptedFrom(_, _, _, _)
AcceptedFrom(candidate, path, outputs, k) ==
    IF k >= Len(path) THEN 0
    ELSE IF candidate[k + 1] = ArgMax(outputs[path[k] + 1])
         THEN 1 + AcceptedFrom(candidate, path, outputs, k + 1)
         ELSE 0

AcceptLength(g, i) ==
    AcceptedFrom(g.candidates[i], g.medusa_buffers.retrieve_indices[i], g.outputs, 1)

\* the first path of greatest accepted length
BestCandidate(g) ==
    CHOOSE i \in 1..Len(g.candidates) :
        /\ \A j \in 1..Len(g.candidates) : AcceptLength(g, j) <= AcceptLength(g, i)
        /\ \A j \in 1..(i - 1) : AcceptLength(g, j) < AcceptLength(g, i)

\* mutant: the accepted length is kept without the token of the base model
NextPrevAcceptBare(accept_length) == accept_length

\* line 540
NextPrevAccept(accept_length) == accept_length + 1

\* lines 536-540
AcceptStep(w) ==
    LET g    == w.g
        best == BestCandidate(g)
    IN  [w EXCEPT !.g = [g EXCEPT !.best_candidate = best,
                                  !.accept_length = AcceptLength(g, best),
                                  !.prev_accept_length = NextPrevAccept(AcceptLength(g, best)),
                                  !.trace = Append(g.trace, "Accept"),
                                  !.pc = "commit"]]

\* update_inference_inputs: the accepted nodes' slots are copied behind the
\* committed sequence
CommitCache(data, prev_input_len, path, n) ==
    [i \in 1..CacheCap |->
        IF prev_input_len < i /\ i <= prev_input_len + n
        THEN data[prev_input_len + path[i - prev_input_len] + 1]
        ELSE data[i]]

\* mutant: the counter stays where the tree pass left it
CommitLengthKept(cur, prev_input_len, n) == cur

\* update_inference_inputs: the counter is set behind the accepted tokens
CommitLength(cur, prev_input_len, n) == prev_input_len + n

\* mutant: the test of line 566 made ahead of the yield, so that the step
\* that commits the end token leaves the loop without its fragment
YieldUnlessEos(out, input_ids, input_len) ==
    IF \E k \in (input_len + 1)..Len(input_ids) : input_ids[k] = eos_token_id
    THEN out
    ELSE Append(out, Decode(SubSeq(input_ids, input_len + 1, Len(input_ids))))

\* lines 557-564: the yield hands the caller the decoded generated region;
\* out is what the caller has received so far
Yield(out, input_ids, input_len) ==
    Append(out, Decode(SubSeq(input_ids, input_len + 1, Len(input_ids))))

\* lines 543-564: the commit of the accepted path, then the yield of the text
\* generated so far
CommitStep(w) ==
    LET g    == w.g
        path == g.medusa_buffers.retrieve_indices[g.best_candidate]
        n    == g.accept_length + 1
        prev_input_len == Len(g.input_ids)
        last == g.outputs[path[n] + 1]
        ids  == g.input_ids \o SubSeq(g.candidates[g.best_candidate], 1, n)
    IN
    IF prev_input_len + path[n] + 1 > CacheCap
    THEN Raise(w, "IndexError")
    ELSE [w EXCEPT
            !.data = CommitCache(w.data, prev_input_len, path, n),
            !.cur  = CommitLength(w.cur, prev_input_len, n),
            !.g    = [g EXCEPT
                        !.input_ids = ids,
                        !.logits = ArgMax(last),
                        !.medusa_logits = last,
                        !.new_token = g.new_token + n,
                        !.num_heads = Unset,
                        !.expander_heads = Unset,
                        !.candidates = <<>>,
                        !.tree_candidates = <<>>,
                        !.submitted = Unset,
                        !.outputs = <<>>,
                        !.best_candidate = Unset,
                        !.accept_length = Unset,
                        !.out = Yield(g.out, ids, g.input_len),
                        !.trace = Append(g.trace, "Commit"),
                        !.pc = "yielded"]]

\* next() on a suspended generator: lines 566-567, then the loop head, line 443
ResumeStep(w) ==
    LET g == w.g
    IN  IF HasEos(g) THEN [w EXCEPT !.g.pc = "done"]
        ELSE IF g.idx + 1 < g.args.max_steps
        THEN [w EXCEPT !.g.idx = g.idx + 1, !.g.pc = "draft"]
        ELSE [w EXCEPT !.g.pc = "done"]

\* ------------------------------------------------------------ the actions
World(s) == [ g |-> gen[s], data |-> past_key_values_data, cur |-> current_length_data,
              choices |-> self_medusa_choices, buffers |-> self_medusa_buffers ]

\* mutant: a second yield, between evaluate_posterior and the commit
ExecutingUntilAccept(pc) == pc \in {"prefill", "draft", "verify", "accept"}

\* the only yield is at line 557, behind the commit
Executing(pc) == pc \in {"prefill", "draft", "verify", "accept", "commit"}

\* The generator s ran from w.g.pc to its next stop: the shared attributes
\* and its locals are as the step left them, and control is with s until it
\* yields, returns or raises.
Becomes(s, w) ==
    /\ gen' = [Interleave(gen, s) EXCEPT ![s] = w.g]
    /\ past_key_values_data' = w.data
    /\ current_length_data' = w.cur
    /\ self_medusa_choices' = w.choices
    /\ self_medusa_buffers' = w.buffers
    /\ running' = IF Executing(w.g.pc) THEN s ELSE NoStream
    /\ UNCHANGED <<policy, medusa, lm, convert>>

\* First next() of a generator made by medusa_generate(**a). The calls that
\* get past their setup are counted; a rejected call leaves the object as it
\* was and can be made at any time.
Start(s, a) ==
    /\ running = NoStream
    /\ gen[s].pc \in {"none", "done", "failed", "closed"}
    /\ (calls < MaxCalls \/ SetupError(a, World(s)) # "")
    /\ calls' = IF SetupError(a, World(s)) # "" THEN calls ELSE calls + 1
    /\ Becomes(s, StartStep(a, World(s)))

Prefill(s) ==
    /\ running = s
    /\ gen[s].pc = "prefill"
    /\ Becomes(s, PrefillStep(World(s)))
    /\ UNCHANGED calls

Draft(s) ==
    /\ running = s
    /\ gen[s].pc = "draft"
    /\ Becomes(s, DraftStep(World(s), medusa))
    /\ UNCHANGED calls

Verify(s) ==
    /\ running = s
    /\ gen[s].pc = "verify"
    /\ Becomes(s, VerifyStep(World(s)))
    /\ UNCHANGED calls

Accept(s) ==
    /\ running = s
    /\ gen[s].pc = "accept"
    /\ Becomes(s, AcceptStep(World(s)))
    /\ UNCHANGED calls

Commit(s) ==
    /\ running = s
    /\ gen[s].pc = "commit"
    /\ Becomes(s, CommitStep(World(s)))
    /\ UNCHANGED calls

Resume(s) ==
    /\ running = NoStream
    /\ gen[s].pc = "yielded"
    /\ Becomes(s, ResumeStep(World(s)))
    /\ UNCHANGED calls

\* The caller drops a suspended generator: it never runs again.
Abandon(s) ==
    /\ running = NoStream
    /\ gen[s].pc = "yielded"
    /\ gen' = [gen EXCEPT ![s].pc = "closed"]
    /\ UNCHANGED <<policy, medusa, lm, self_medusa_choices, self_medusa_buffers,
                   past_key_values_data, current_length_data, running, calls, convert>>

\* no call of convert_format is under way
NoConvert == [ pc |-> "none", example |-> <<>>, i |-> 0, conversations |-> <<>>,
               valid_conversation |-> FALSE, current_role |-> "None", result |-> None ]

NoPolicy == [fn |-> "none", past_accepted_count |-> 0, candidates_prob |-> <<>>,
             threshold |-> 0, max_heads |-> None, result |-> 0]

Init ==
    /\ policy = NoPolicy
    /\ medusa = MaxHeads
    /\ lm \in [0..(KeyMod - 1) -> Vocab]
    /\ self_medusa_choices = None
    /\ self_medusa_buffers = NoBuffers
    /\ past_key_values_data = None
    /\ current_length_data = Unset
    /\ gen = [s \in Streams |-> Fresh]
    /\ running = NoStream
    /\ calls = 0
    /\ convert = NoConvert

\* One generator at a time: the caller finishes or drops a generation before it
\* starts the next one.
MainStream == CHOOSE s \in Streams : \A t \in Streams : s <= t

Step(s) ==
    \/ Prefill(s)
    \/ Draft(s)
    \/ Verify(s)
    \/ Accept(s)
    \/ Commit(s)
    \/ Resume(s)
    \/ Abandon(s)

Next ==
    \/ \E a \in Args : Start(MainStream, a)
    \/ Step(MainStream)

Spec == Init /\ [][Next]_vars

\* Several generators of the same model object alive at once, resumed in any
\* order.
StreamArgs == [ batch          : {1},
                prompt         : Prompts,
                medusa_choices : {<<1, 1>>, <<2, 1>>},
                max_steps      : 1..MaxSteps,
                adaptive_mode  : {"none", "previous"} ]

NextStreams ==
    \/ \E s \in Streams, a \in StreamArgs : Start(s, a)
    \/ \E s \in Streams : Step(s)

SpecStreams == Init /\ [][NextStreams]_vars

\* The adaptive policies called on their own, with any arguments.
ProbSeqs == UNION {[1..n -> 0..MaxProb] : n \in 0..MaxProbLen}
HeadArgs == {None} \cup {<<m>> : m \in 1..(MaxHeads + 1)}

\* mutant: the cap is written to the object instead of being read from it
SelfAfterPolicyStored(self_medusa, max_heads) ==
    IF max_heads = None THEN self_medusa ELSE max_heads[1]

\* lines 235-236 and 255-256 assign the local max_heads only; the policies
\* assign no attribute of self
SelfAfterPolicy(self_medusa, max_heads) == self_medusa

otherVars == <<lm, self_medusa_choices, self_medusa_buffers,
               past_key_values_data, current_length_data, gen, running, calls, convert>>

CallPrevious ==
    /\ policy.fn = "none"
    /\ \E c \in (0 - MaxCount)..MaxCount, mh \in HeadArgs :
          /\ policy' = [fn |-> "previous", past_accepted_count |-> c,
                        candidates_prob |-> <<>>, threshold |-> 0, max_heads |-> mh,
                        result |-> adaptive_based_on_previous_step(c, mh, medusa)]
          /\ medusa' = SelfAfterPolicy(medusa, mh)
    /\ UNCHANGED otherVars

CallCurrent ==
    /\ policy.fn = "none"
    /\ \E p \in ProbSeqs, th \in 0..MaxProb, mh \in HeadArgs :
          /\ policy' = [fn |-> "current", past_accepted_count |-> 0,
                        candidates_prob |-> p, threshold |-> th, max_heads |-> mh,
                        result |-> adaptive_based_on_current_step(p, th, mh, medusa)]
          /\ medusa' = SelfAfterPolicy(medusa, mh)
    /\ UNCHANGED otherVars

InitAdaptive ==
    /\ policy = NoPolicy
    /\ medusa \in 1..MaxHeads
    /\ lm = [k \in 0..(KeyMod - 1) |-> eos_token_id]
    /\ self_medusa_choices = None
    /\ self_medusa_buffers = NoBuffers
    /\ past_key_values_data = None
    /\ current_length_data = Unset
    /\ gen = [s \in Streams |-> Fresh]
    /\ running = NoStream
    /\ calls = 0
    /\ convert = NoConvert

\* The caller has taken the result.
ReturnPolicy ==
    /\ policy.fn # "none"
    /\ policy' = NoPolicy
    /\ UNCHANGED modelVars

NextAdaptive == CallPrevious \/ CallCurrent \/ ReturnPolicy

SpecAdaptive == InitAdaptive /\ [][NextAdaptive]_vars

\* ------------------------------------------------- the data preparation
\* convert_format (src/medusa/data/partition_train_test.py).  A string is the
\* sequence of its characters; a message is a dict, a function whose domain
\* is the set of keys it has.

MaxMsgs == 3

Human == <<"h", "u", "m", "a", "n">>
Whitespace == {" ", "\t", "\n"}

\* the values of the key "from" tried, and the values of the key "value"
\* tried: empty, blank, text, text behind a blank
Froms == {Human, <<"H", "u", "m", "a", "n">>, <<"g", "p", "t">>}
Values == {<<>>, <<" ">>, <<"a">>, <<" ", "b">>}

Messages ==
    [from : Froms, value : Values] \cup [from : Froms] \cup [value : Values]

\* example["conversations"]
Examples == UNION {[1..n -> Messages] : n \in 0..MaxMsgs}

\* str.lower() on the letters that occur
LowerChar(c) ==
    CASE c = "H" -> "h"
      [] c = "U" -> "u"
      [] c = "M" -> "m"
      [] c = "A" -> "a"
      [] c = "N" -> "n"
      [] OTHER   -> c

Lower(str) == [k \in 1..Len(str) |-> LowerChar(str[k])]

RECURSIVE LStrip(_)
LStrip(str) ==
    IF str # <<>> /\ Head(str) \in Whitespace THEN LStrip(Tail(str)) ELSE str

RECURSIVE RStrip(_)
RStrip(str) ==
    IF str # <<>> /\ str[Len(str)] \in Whitespace
    THEN RStrip(SubSeq(str, 1, Len(str) - 1))
    ELSE str

\* str.strip()
Strip(str) == RStrip(LStrip(str))

\* line 27
RoleOf(msg) == IF Lower(msg.from) = Human THEN "user" ELSE "assistant"

\* mutant: the value is tested for emptiness only
KeptUnstripped(value) == value # <<>>

\* line 40: msg["value"] and msg["value"].strip()
Kept(value) == value # <<>> /\ Strip(value) # <<>>

\* lines 25-45: the body of the loop for one message
LoopBody(c, msg) ==
    IF ~("from" \in DOMAIN msg /\ "value" \in DOMAIN msg) THEN c
    ELSE LET role == RoleOf(msg) IN
         IF c.conversations = <<>> /\ role # "user" THEN c
         ELSE LET v == IF c.conversations = <<>>
                       THEN [c EXCEPT !.valid_conversation = TRUE]
                       ELSE c
              IN  IF v.current_role = role THEN v
                  ELSE IF Kept(msg.value)
                       THEN [v EXCEPT
                               !.conversations =
                                   Append(v.conversations,
                                          [role |-> role, content |-> msg.value]),
                               !.current_role = role]
                       ELSE v

\* lines 48-51; a returned dict {"conversations": ...} is the one-element
\* sequence of its list
ReturnValue(c) ==
    IF c.valid_conversation /\ Len(c.conversations) >= 2
    THEN <<c.conversations>>
    ELSE None

\* lines 16-21: the call and the initialisation of the locals
InitConvert ==
    /\ policy = NoPolicy
    /\ medusa = MaxHeads
    /\ lm = [k \in 0..(KeyMod - 1) |-> eos_token_id]
    /\ self_medusa_choices = None
    /\ self_medusa_buffers = NoBuffers
    /\ past_key_values_data = None
    /\ current_length_data = Unset
    /\ gen = [s \in Streams |-> Fresh]
    /\ running = NoStream
    /\ calls = 0
    /\ \E e \in Examples :
          convert = [NoConvert EXCEPT !.pc = "loop", !.example = e, !.i = 1]

convertFrame == <<policy, medusa, lm, self_medusa_choices, self_medusa_buffers,
                  past_key_values_data, current_length_data, gen, running, calls>>

\* line 24: the loop takes the next message
ConvertMessage ==
    /\ convert.pc = "loop"
    /\ convert.i <= Len(convert.example)
    /\ convert' = [LoopBody(convert, convert.example[convert.i])
                      EXCEPT !.i = convert.i + 1]
    /\ UNCHANGED convertFrame

\* the loop is exhausted: lines 48-51
ConvertReturn ==
    /\ convert.pc = "loop"
    /\ convert.i > Len(convert.example)
    /\ convert' = [convert EXCEPT !.pc = "returned", !.result = ReturnValue(convert)]
    /\ UNCHANGED convertFrame

NextConvert == ConvertMessage \/ ConvertReturn

SpecConvert == InitConvert /\ [][NextConvert]_vars

\* ------------------------------------------------------------ the claims
\* the cap in force for the recorded policy call
PolicyMaxHeads == IF policy.max_heads = None THEN medusa ELSE policy.max_heads[1]

\* the length of the longest run of consecutive positions above the threshold
LongestRun(p, th) ==
    CHOOSE L \in 0..Len(p) :
        /\ \E a \in 1..(Len(p) - L + 1) : \A i \in a..(a + L - 1) : p[i] > th
        /\ \A M \in (L + 1)..Len(p) :
              ~ \E a \in 1..(Len(p) - M + 1) : \A i \in a..(a + M - 1) : p[i] > th

\* the length of the run of positions above the threshold that starts at the
\* first position
LeadingRun(p, th) ==
    CHOOSE L \in 0..Len(p) :
        /\ \A i \in 1..L : p[i] > th
        /\ (L < Len(p) => p[L + 1] <= th)

\* C1 as stated: the previous-step policy returns h with 2 <= h <= maxHeads,
\* for every maxHeads, those below 2 included.
C1_Original ==
    policy.fn = "previous" => (2 <= policy.result /\ policy.result <= PolicyMaxHeads)

\* C1 amended: the previous-step policy returns min(max(count, 2), maxHeads):
\* never above maxHeads, at least 2 when maxHeads >= 2, and maxHeads itself
\* when maxHeads < 2.
C1_Amended ==
    policy.fn = "previous" =>
        /\ policy.result <= PolicyMaxHeads
        /\ (PolicyMaxHeads >= 2 => policy.result >= 2)
        /\ (PolicyMaxHeads < 2 => policy.result = PolicyMaxHeads)
        /\ (policy.past_accepted_count \in 2..PolicyMaxHeads =>
               policy.result = policy.past_accepted_count)

C1_Witness ==
    /\ policy.fn = "previous"
    /\ policy.max_heads = None
    /\ medusa = 1
    /\ policy.past_accepted_count > 2
    /\ policy.result = 1

\* C2: the current-step policy returns h with 1 <= h <= maxHeads, for every
\* probability sequence (the empty one and one with nothing above the
\* threshold included), every threshold and every maxHeads >= 1.
C2_CurrentBounds ==
    (policy.fn = "current" /\ PolicyMaxHeads >= 1) =>
        (1 <= policy.result /\ policy.result <= PolicyMaxHeads)

C2_Witness ==
    /\ policy.fn = "current"
    /\ Len(policy.candidates_prob) = MaxProbLen
    /\ \A i \in 1..Len(policy.candidates_prob) :
          policy.candidates_prob[i] <= policy.threshold
    /\ policy.result = 1

C4_TrustedPrefix ==
    policy.fn = "current" =>
        policy.result =
            Min(PolicyMaxHeads, Max(1, LeadingRun(policy.candidates_prob, policy.threshold)))

\* ---- the generation loop

StepPcs == {"draft", "verify", "accept", "commit"}

EosGenerated(g) ==
    \E k \in (g.input_len + 1)..Len(g.input_ids) : g.input_ids[k] = eos_token_id

\* C5: a call executes at most max_steps steps; a step starts only while the
\* generated region holds no end token, so the loop stops right after the
\* first step that commits one; and the loop ends normally only for one of
\* these two reasons (an end token in the prompt does not count).
C5_Termination ==
    \A s \in Streams :
        LET g == gen[s] IN
        /\ Len(g.out) <= g.args.max_steps
        /\ (g.pc \in StepPcs =>
               /\ g.idx = Len(g.out)
               /\ g.idx < g.args.max_steps
               /\ ~EosGenerated(g))
        /\ (g.pc = "yielded" => g.idx + 1 = Len(g.out))
        /\ (g.pc = "done" => (EosGenerated(g) \/ Len(g.out) = g.args.max_steps))

\* a prompt that holds the end token, and the call ran all its steps
C5_Witness ==
    LET g == gen[MainStream] IN
    /\ g.pc = "done"
    /\ g.args.prompt[1] = eos_token_id
    /\ g.args.max_steps = MaxSteps
    /\ Len(g.out) = MaxSteps
    /\ ~EosGenerated(g)

PhaseAt(i) ==
    IF i = 1 THEN "Prefill"
    ELSE <<"Draft", "Verify", "Accept", "Commit">>[((i - 2) % 4) + 1]

\* C6: in every adaptive mode the phases of a call are Prefill, then Draft,
\* Verify, Accept, Commit repeated in that order, each once per step; the
\* next Draft starts only after the Commit of the step before.
C6_PhaseOrder ==
    \A s \in Streams :
        LET g == gen[s] IN
        /\ \A i \in 1..Len(g.trace) : g.trace[i] = PhaseAt(i)
        /\ (g.pc = "prefill" => g.trace = <<>>)
        /\ (g.pc = "draft" => Len(g.trace) = 4 * g.idx + 1)
        /\ (g.pc = "verify" => Len(g.trace) = 4 * g.idx + 2)
        /\ (g.pc = "accept" => Len(g.trace) = 4 * g.idx + 3)
        /\ (g.pc = "commit" => Len(g.trace) = 4 * g.idx + 4)
        /\ (g.pc = "yielded" => Len(g.trace) = 4 * g.idx + 5)

C6_Witness ==
    LET g == gen[MainStream] IN
    /\ g.args.adaptive_mode = "current"
    /\ g.pc = "yielded"
    /\ Len(g.trace) = 4 * MaxSteps + 1

\* C7 as stated: while a generator stays suspended between two of its steps,
\* nothing changes the cache length counter or the cache storage of the model
\* object it runs on.
C7_NoForeignCacheWrite ==
    [][\A s \in Streams :
          (gen[s].pc = "yielded" /\ gen'[s].pc = "yielded") =>
              /\ current_length_data' = current_length_data
              /\ past_key_values_data' = past_key_values_data]_vars

\* C8: when a call reaches prefill the length counter is zero and the call has
\* no generated-token count or accepted-length history yet; at its first
\* Draft the count is 0, the history is at its initial value and the visible
\* cache is the prompt alone.
C8_ResetAtStart ==
    \A s \in Streams :
        LET g == gen[s] IN
        /\ (g.pc = "prefill" =>
               /\ current_length_data = 0
               /\ g.new_token = Unset
               /\ g.prev_accept_length = Unset
               /\ g.input_ids = g.args.prompt
               /\ g.out = <<>>)
        /\ ((g.pc = "draft" /\ g.idx = 0) =>
               /\ g.new_token = 0
               /\ g.prev_accept_length = InitialPrevAccept
               /\ current_length_data = g.input_len
               /\ SubSeq(past_key_values_data, 1, current_length_data) = g.args.prompt)

\* a later call at prefill, the storage still holding an earlier call's slots
C8_Witness ==
    LET g == gen[MainStream] IN
    /\ calls > 1
    /\ g.pc = "prefill"
    /\ \E i \in (Len(g.args.prompt) + 1)..CacheCap : past_key_values_data[i] # Blank

\* C9: the buffers a call uses are those of its BranchSpec; they were rebuilt
\* exactly when the BranchSpec differs from the key cached before the call;
\* and the cached key and the cached buffers belong together.
C9_BuffersMatch ==
    /\ (self_medusa_choices # None =>
           self_medusa_buffers = generate_medusa_buffers(self_medusa_choices))
    /\ \A s \in Streams :
           LET g == gen[s] IN
           (g.args # NoArgs /\ g.error \notin {"AssertionError", "InvalidSpec"}) =>
               /\ g.medusa_buffers = generate_medusa_buffers(g.args.medusa_choices)
               /\ (g.rebuilt <=> g.cached_before # g.args.medusa_choices)

\* a call whose BranchSpec replaced another one in the cache
C9_Witness ==
    LET g == gen[MainStream] IN
    /\ g.pc = "yielded"
    /\ g.cached_before # None
    /\ g.cached_before # g.args.medusa_choices
    /\ self_medusa_choices = g.args.medusa_choices

\* the model object before any call
NewObject == [ g |-> Fresh, data |-> None, cur |-> Unset,
               choices |-> None, buffers |-> NoBuffers ]

\* a call driven to its end without interruption
RECURSIVE RunToEnd(_)
RunToEnd(w) ==
    IF w.g.pc = "prefill" THEN RunToEnd(PrefillStep(w))
    ELSE IF w.g.pc = "draft" THEN RunToEnd(DraftStep(w, medusa))
    ELSE IF w.g.pc = "verify" THEN RunToEnd(VerifyStep(w))
    ELSE IF w.g.pc = "accept" THEN RunToEnd(AcceptStep(w))
    ELSE IF w.g.pc = "commit" THEN RunToEnd(CommitStep(w))
    ELSE IF w.g.pc = "yielded" THEN RunToEnd(ResumeStep(w))
    ELSE w

IsPrefix(p, q) == Len(p) <= Len(q) /\ SubSeq(q, 1, Len(p)) = p

\* C10: at temperature 0 the fragments of a call are those the same call
\* produces as the first call on a new model object, whatever calls the
\* object served before; so two calls with the same arguments agree.
C10_Deterministic ==
    \A s \in Streams :
        LET g == gen[s] IN
        (g.args # NoArgs /\ g.clean) =>
            LET r == RunToEnd(StartStep(g.args, NewObject)).g IN
            /\ IsPrefix(g.out, r.out)
            /\ (g.pc \in {"done", "failed"} =>
                   /\ g.pc = r.pc
                   /\ g.error = r.error
                   /\ g.out = r.out
                   /\ g.input_ids = r.input_ids)

\* a finished call that followed a call with another BranchSpec, slots of
\* which are still in the storage
C10_Witness ==
    LET g == gen[MainStream] IN
    /\ g.pc = "done"
    /\ Len(g.out) = MaxSteps
    /\ g.cached_before # None
    /\ g.cached_before # g.args.medusa_choices
    /\ \E i \in (current_length_data + 1)..CacheCap : past_key_values_data[i] # Blank

\* ---- the fragments of a call

RECURSIVE Concat(_)
Concat(ss) == IF ss = <<>> THEN <<>> ELSE ss[1] \o Concat(Tail(ss))

\* C11 as stated: every fragment is the text of the tokens committed in its
\* step only, so the fragments of a call, put one behind the other, are the
\* text of the generated region, every committed token in exactly one of them.
C11_IncrementalFragments ==
    \A s \in Streams :
        gen[s].pc = "yielded" => Concat(gen[s].out) = Decode(Generated(gen[s]))

\* ---- failures

\* what a call leaves on the model object
ObjectState == <<self_medusa_choices, self_medusa_buffers,
                 past_key_values_data, current_length_data>>

\* C12: a call whose input has a batch size other than 1 fails on entry with
\* nothing done: the cached buffers and their key, the key/value storage and
\* its length counter are as before, no phase has run and no fragment exists.
C12_BatchRejected ==
    [][(gen'[MainStream] # gen[MainStream] /\ gen'[MainStream].args.batch \notin {0, 1}) =>
          /\ gen'[MainStream].pc = "failed"
          /\ gen'[MainStream].error = "AssertionError"
          /\ gen'[MainStream].trace = <<>>
          /\ gen'[MainStream].out = <<>>
          /\ gen'[MainStream].medusa_buffers = NoBuffers
          /\ running' = NoStream
          /\ ObjectState' = ObjectState]_vars

\* rejected on an object whose earlier call left a cached BranchSpec other
\* than the rejected one and a counter above zero
C12_Witness ==
    LET g == gen[MainStream] IN
    /\ g.pc = "failed"
    /\ g.error = "AssertionError"
    /\ g.args.batch = 2
    /\ self_medusa_choices # None
    /\ g.args.medusa_choices # None
    /\ g.args.medusa_choices # self_medusa_choices
    /\ current_length_data > 0

\* ---- the active window of the tree

\* the nodes of a tree down to depth h, the root included
NodesToDepth(buffers, h) ==
    {n \in 1..Len(buffers.medusa_position_ids) : buffers.medusa_position_ids[n] <= h}

\* C13 as stated: a verification with activeHeads = h submits the tokens and
\* position ids of exactly the nodes of depth <= h (the nodes are kept in
\* order of depth, so these are the first so many of them).
C13_DepthWindow ==
    \A s \in Streams :
        LET g == gen[s] IN
        (g.num_heads # Unset /\ g.submitted # Unset) =>
            g.submitted = Cardinality(NodesToDepth(g.medusa_buffers, g.num_heads))

\* ---- the cache and the committed sequence

\* C14: between steps the length counter is the prompt length plus the tokens
\* committed by the steps so far, which is the length of the committed
\* sequence, and the slots it covers hold that sequence and no node of a
\* rejected branch.
C14_CacheLength ==
    LET g == gen[MainStream] IN
    ((g.pc \in {"draft", "yielded"}) \/ (g.pc = "done" /\ g.trace # <<>>)) =>
        /\ current_length_data = g.input_len + g.new_token
        /\ current_length_data = Len(g.input_ids)
        /\ SubSeq(past_key_values_data, 1, current_length_data) = g.input_ids

\* two steps committed on a tree of depth 2, not every drafted token accepted,
\* nodes of a verification still in the storage behind the counter
C14_Witness ==
    LET g == gen[MainStream] IN
    /\ g.pc = "yielded"
    /\ g.idx = 1
    /\ Len(g.args.medusa_choices) = 2
    /\ g.new_token < 4
    /\ past_key_values_data[current_length_data + 1] # Blank

\* ---- suspension

\* C15: whenever the caller has control, no generator stands inside a step; a
\* suspended or dropped generator has run whole steps only and stopped behind
\* a Commit; while it is suspended the counter is the length of its committed
\* sequence; and a generator is dropped only from such a point.
C15_SuspendBetweenSteps ==
    /\ [](running = NoStream =>
            \A s \in Streams :
                LET g == gen[s] IN
                /\ g.pc \notin ({"prefill"} \cup StepPcs)
                /\ (g.pc \in {"yielded", "closed"} =>
                       /\ Len(g.trace) = 4 * (g.idx + 1) + 1
                       /\ g.trace[Len(g.trace)] = "Commit"
                       /\ Len(g.out) = g.idx + 1
                       /\ g.num_heads = Unset
                       /\ g.submitted = Unset)
                /\ (g.pc = "yielded" =>
                       /\ current_length_data = Len(g.input_ids)
                       /\ SubSeq(past_key_values_data, 1, current_length_data) = g.input_ids))
    /\ [][\A s \in Streams :
            (gen'[s].pc = "closed" /\ gen[s].pc # "closed") => gen[s].pc = "yielded"]_vars

\* a generator dropped after the first of its steps, with steps left to run
C15_Witness ==
    LET g == gen[MainStream] IN
    /\ g.pc = "closed"
    /\ g.idx = 0
    /\ g.args.max_steps = MaxSteps
    /\ ~HasEos(g)

\* C16: a call whose BranchSpec cannot be built fails with InvalidSpec with
\* nothing done: the cached key and buffers, the storage and its counter are
\* as before, no phase has run; a malformed BranchSpec is never cached, so the
\* cached pair always belongs together and a later call with the cached
\* BranchSpec reuses buffers that match it.
C16_InvalidSpecAborts ==
    /\ [][\A s \in Streams :
            (gen'[s] # gen[s] /\ gen'[s].error = "InvalidSpec") =>
                /\ gen'[s].pc = "failed"
                /\ gen'[s].trace = <<>>
                /\ gen'[s].out = <<>>
                /\ gen'[s].medusa_buffers = NoBuffers
                /\ running' = NoStream
                /\ ObjectState' = ObjectState]_vars
    /\ [][\A s \in Streams :
            (gen'[s] # gen[s] /\ gen'[s].trace = <<>> /\ gen'[s].args.batch = 1
               /\ gen'[s].args.medusa_choices \in InvalidSpecs) =>
                gen'[s].error = "InvalidSpec"]_vars
    /\ [](self_medusa_choices # None =>
            /\ ValidSpec(self_medusa_choices)
            /\ self_medusa_buffers = generate_medusa_buffers(self_medusa_choices))

\* rejected on an object that holds the buffers of an earlier call and a
\* counter above zero, after as many calls as the bound allows
C16_Witness ==
    LET g == gen[MainStream] IN
    /\ g.pc = "failed"
    /\ g.error = "InvalidSpec"
    /\ calls = MaxCalls
    /\ self_medusa_choices \in BranchSpecs
    /\ self_medusa_buffers = generate_medusa_buffers(self_medusa_choices)
    /\ current_length_data > 0

StepErrors == {"VerificationFailure", "IndexError", "RuntimeError"}

\* C17: a failure inside a step ends the call there: the generator is finished
\* with the error, control is back with the caller, the failed step has no
\* commit and no fragment, and nothing of the call runs afterwards (the
\* record changes again only when a new call replaces it).
C17_FailureAborts ==
    /\ [](\A s \in Streams :
            LET g == gen[s] IN
            /\ (g.error # "" => g.pc = "failed")
            /\ ((g.pc = "failed" /\ g.error \in StepErrors /\ g.idx # Unset) =>
                   /\ running # s
                   /\ Len(g.out) = g.idx
                   /\ Len(g.trace) \in {4 * g.idx + 1, 4 * g.idx + 2}
                   /\ Len(g.input_ids) = g.input_len + g.new_token))
    /\ [][\A s \in Streams :
            /\ (gen[s].pc = "failed" => (gen'[s] = gen[s] \/ gen'[s].trace = <<>>))
            /\ ((gen[s].pc \in StepPcs /\ gen'[s].pc = "failed") =>
                   /\ gen'[s].error \in StepErrors
                   /\ gen'[s].out = gen[s].out
                   /\ gen'[s].input_ids = gen[s].input_ids
                   /\ gen'[s].trace = gen[s].trace
                   /\ gen'[s].idx = gen[s].idx
                   /\ running' = NoStream)]_vars

\* the sequence model failed in the second step of a call, the fragment of
\* its first step emitted
C17_Witness ==
    LET g == gen[MainStream] IN
    /\ g.pc = "failed"
    /\ g.error = "VerificationFailure"
    /\ g.idx = 1
    /\ Len(g.out) = 1

\* ---- the policies as functions

\* C18: a call of either policy changes nothing but its own result: the
\* object's attributes, the cache and its counter, the cached buffers and
\* every generator's locals are as before; the arguments recorded with the
\* result are those passed; and the result is a fixed function of the
\* arguments and the head count of the object.
C18_PoliciesPure ==
    /\ [][policy' # policy => modelVars' = modelVars]_vars
    /\ [](policy.fn = "previous" =>
            policy.result = Min(Max(policy.past_accepted_count, 2), PolicyMaxHeads))
    /\ [](policy.fn = "current" =>
            policy.result =
                IF \A i \in 1..Len(policy.candidates_prob) :
                       policy.candidates_prob[i] <= policy.threshold
                THEN 1
                ELSE Min(LongestRun(policy.candidates_prob, policy.threshold),
                         PolicyMaxHeads))

\* a call with a cap of its own, other than the head count of the object
C18_Witness ==
    /\ policy.fn = "current"
    /\ policy.max_heads # None
    /\ policy.max_heads[1] # medusa
    /\ Len(policy.candidates_prob) = MaxProbLen
    /\ policy.result = policy.max_heads[1]

\* ---- the adaptive modes in the loop

\* the tokens the step before the running one committed (a fragment is the
\* text of everything generated so far, and a call that goes on has committed
\* no end token)
CommittedBefore(g) ==
    IF g.idx = 0 THEN 0
    ELSE Len(g.out[g.idx]) - (IF g.idx > 1 THEN Len(g.out[g.idx - 1]) ELSE 0)

\* C19: in 'previous' mode the head count of a step is the accepted length of
\* the step before, the token of the base model counted in (5 in the first
\* step), raised to 2 and capped at the number of heads; the candidate
\* expansion and the verification of the step both get this count.
C19_PreviousHeads ==
    \A s \in Streams :
        LET g == gen[s]
            a == IF g.idx = 0 THEN 5 ELSE CommittedBefore(g)
            h == Min(Max(a, 2), medusa)
        IN  (g.args.adaptive_mode = "previous" /\ g.num_heads # Unset) =>
                /\ g.num_heads = h
                /\ g.expander_heads = h
                /\ (g.submitted # Unset =>
                       g.submitted = Min(h + 1, Len(g.tree_candidates)))

\* the second step of a call, run with fewer heads than the first because the
\* first accepted only the token of the base model
C19_Witness ==
    LET g == gen[MainStream] IN
    /\ g.args.adaptive_mode = "previous"
    /\ g.pc = "accept"
    /\ g.idx = 1
    /\ CommittedBefore(g) = 1
    /\ g.num_heads = 2
    /\ g.num_heads < medusa

\* the verification passes the running step has made
VerifyPasses(g) ==
    Cardinality({i \in (4 * g.idx + 2)..Len(g.trace) : g.trace[i] = "Verify"})

\* C20 as stated: in 'current' mode every step drafts with all heads, gets its
\* head count from the policy, and reaches its commit after two verification
\* passes, the second over the trimmed tree.
C20_SecondPass ==
    \A s \in Streams :
        LET g == gen[s] IN
        g.args.adaptive_mode = "current" =>
            /\ g.error # "RuntimeError"
            /\ (g.pc \in {"accept", "commit"} =>
                   /\ g.expander_heads = medusa
                   /\ g.submitted = Min(g.num_heads + 1, Len(g.tree_candidates))
                   /\ VerifyPasses(g) = 2)

\* the steps of the call that reached their Commit
Commits(g) == Cardinality({i \in 1..Len(g.trace) : g.trace[i] = "Commit"})

\* C21: a call has emitted as many fragments as it has committed steps; a
\* fragment is emitted only by a Commit, one per Commit, and the generator
\* then stands at its yield, so the loop's termination check comes after it:
\* a call that committed the end token has the fragment of that step, a call
\* that ended on max_steps has max_steps fragments, and max_steps = 0 gives
\* none.
C21_FragmentPerCommit ==
    /\ [](\A s \in Streams :
            LET g == gen[s] IN
            /\ Len(g.out) = Commits(g)
            /\ (g.args.max_steps = 0 => g.out = <<>>)
            /\ (EosGenerated(g) => Len(g.out) >= 1)
            /\ ((g.pc = "done" /\ ~EosGenerated(g)) => Len(g.out) = g.args.max_steps))
    /\ [][\A s \in Streams :
            LET g == gen[s]
                h == gen'[s]
            IN
            /\ (h.out # g.out =>
                   \/ /\ g.pc \in {"none", "done", "failed", "closed"}
                      /\ h.out = <<>>
                   \/ /\ g.pc = "commit"
                      /\ h.pc = "yielded"
                      /\ h.trace = Append(g.trace, "Commit")
                      /\ SubSeq(h.out, 1, Len(g.out)) = g.out
                      /\ Len(h.out) = Len(g.out) + 1)
            /\ (h.trace = Append(g.trace, "Commit") => Len(h.out) = Len(g.out) + 1)
            /\ ((h.pc = "done" /\ g.pc # "done") =>
                   \/ g.pc = "yielded" /\ h.out = g.out
                   \/ h.args.max_steps = 0 /\ h.out = <<>>)]_vars

\* a call with steps left that ended on the end token its first step
\* committed, and the caller has the fragment of that step
C21_Witness ==
    LET g == gen[MainStream] IN
    /\ g.pc = "done"
    /\ g.args.max_steps = MaxSteps
    /\ EosGenerated(g)
    /\ Commits(g) = 1
    /\ Len(g.out) = 1

\* ---- the reordering of the verifier output

\* C22 as stated: in a verification with num_active_heads = h every node id
\* of retrieve_indices is below the number of submitted nodes, so the
\* reordering of the verifier output by retrieve_indices never fails.
C22_RetrieveSubmitted ==
    \A s \in Streams :
        LET g == gen[s] IN
        (g.num_heads # Unset /\ g.submitted # Unset) =>
            /\ \A i \in 1..Len(g.medusa_buffers.retrieve_indices) :
                   \A k \in 1..Len(g.medusa_buffers.retrieve_indices[i]) :
                       g.medusa_buffers.retrieve_indices[i][k] < g.submitted
            /\ g.error # "IndexError"

\* ---- the converted conversations

\* the messages of example that out was made of, in order: an increasing
\* choice of input positions whose messages have both keys, the value that
\* is the content and the sender that is mapped to the role
KeepsOrder(out, example) ==
    \E f \in [1..Len(out) -> 1..Len(example)] :
        /\ \A k \in 1..(Len(out) - 1) : f[k] < f[k + 1]
        /\ \A k \in 1..Len(out) :
              /\ DOMAIN example[f[k]] = {"from", "value"}
              /\ example[f[k]].value = out[k].content
              /\ (out[k].role = "user") = (Lower(example[f[k]].from) = Human)

\* C23: convert_format returns None or a list of at least two messages that
\* starts with a 'user' message, alternates strictly between 'user' and
\* 'assistant', has a character other than white space in every content, and
\* is made of input messages in their input order.
C23_ConvertFormat ==
    (convert.pc = "returned" /\ convert.result # None) =>
        LET out == convert.result[1] IN
        /\ Len(out) >= 2
        /\ out[1].role = "user"
        /\ \A k \in 1..Len(out) : out[k].role \in {"user", "assistant"}
        /\ \A k \in 1..(Len(out) - 1) : out[k].role # out[k + 1].role
        /\ \A k \in 1..Len(out) :
              \E j \in 1..Len(out[k].content) : out[k].content[j] \notin Whitespace
        /\ KeepsOrder(out, convert.example)

\* a conversation returned with fewer messages than it was given: one of them
\* was skipped
C23_Witness ==
    /\ convert.pc = "returned"
    /\ convert.result # None
    /\ Len(convert.example) = 3
    /\ Len(convert.result[1]) = 2

====
